---- MODULE Spec2Model ----
(***************************************************************************)
(* A model of the five-in-a-row engine GobangCore (gobang_core.cpp).       *)
(* The engine is a library of pure functions over a board snapshot; the    *)
(* state is the snapshot the caller holds, the weights the caller holds,   *)
(* and the last call with the value it returned.                           *)
(***************************************************************************)
EXTENDS Integers, Sequences, FiniteSets, TLC

VARIABLES board, weights, call, ret

vars == <<board, weights, call, ret>>

\* ------------------------------------------------------------------ bounds
\* Side length of the board (the board_size argument of every function).
N == 6

\* const int win_len = 5 in check_game_end.
win_len == 5

Idx == 0 .. (N - 1)

\* ------------------------------------------------------------ validate_move
\* validate_move with the player check moved in front of the other two.
validate_move_PlayerFirst(b, x, y, current_player, board_size) ==
    IF current_player # 1 /\ current_player # 2
    THEN [valid |-> FALSE, reason |-> "invalid_player", reads |-> {}]
    ELSE IF x < 0 \/ x >= board_size \/ y < 0 \/ y >= board_size
    THEN [valid |-> FALSE, reason |-> "invalid_position", reads |-> {}]
    ELSE IF b[x][y] # 0
    THEN [valid |-> FALSE, reason |-> "occupied", reads |-> {<<x, y>>}]
    ELSE [valid |-> TRUE, reason |-> "success", reads |-> {<<x, y>>}]

\* The three checks in the order of the code. "reads" is the set of index
\* pairs at which the call evaluates board[x][y].
validate_move(b, x, y, current_player, board_size) ==
    IF x < 0 \/ x >= board_size \/ y < 0 \/ y >= board_size
    THEN [valid |-> FALSE, reason |-> "invalid_position", reads |-> {}]
    ELSE IF b[x][y] # 0
    THEN [valid |-> FALSE, reason |-> "occupied", reads |-> {<<x, y>>}]
    ELSE IF current_player # 1 /\ current_player # 2
    THEN [valid |-> FALSE, reason |-> "invalid_player", reads |-> {<<x, y>>}]
    ELSE [valid |-> TRUE, reason |-> "success", reads |-> {<<x, y>>}]

\* ----------------------------------------------------------- check_game_end
\* GameEndResult result = {false, 0, 0, {}}
NoEnd == [is_end |-> FALSE, winner |-> 0, win_line_size |-> 0, win_line |-> <<>>]

\* The inner k-loop of one window starting at (i, j) with step (di, dj):
\* win stays true iff all win_len cells equal the colour of the first.
WindowWin(b, i, j, di, dj) ==
    LET color == b[i][j]
    IN  /\ color # 0
        /\ \A k \in 0 .. (win_len - 1) : b[i + k * di][j + k * dj] = color

\* WinResult with the line taken one step too far along the axis.
WinResultShifted(b, i, j, di, dj) ==
    [is_end |-> TRUE, winner |-> b[i][j], win_line_size |-> win_len,
     win_line |-> [k \in 1 .. win_len |-> <<i + k * di, j + k * dj>>]]

\* The result filled in when a window wins: win_line holds the win_len
\* positions in the order of emplace_back.
WinResult(b, i, j, di, dj) ==
    [is_end |-> TRUE, winner |-> b[i][j], win_line_size |-> win_len,
     win_line |-> [k \in 1 .. win_len |-> <<i + (k - 1) * di, j + (k - 1) * dj>>]]

RECURSIVE ScanHorizontalRow(_, _, _, _)
\* Row i of the horizontal scan: for j in 0..board_size-win_len, from j on.
ScanHorizontalRow(b, board_size, i, j) ==
    IF j > board_size - win_len THEN NoEnd
    ELSE IF WindowWin(b, i, j, 0, 1) THEN WinResult(b, i, j, 0, 1)
    ELSE ScanHorizontalRow(b, board_size, i, j + 1)

RECURSIVE ScanHorizontal(_, _, _)
\* for i in 0..board_size-1, from i on; a win returns at once.
ScanHorizontal(b, board_size, i) ==
    IF i >= board_size THEN NoEnd
    ELSE LET r == ScanHorizontalRow(b, board_size, i, 0)
         IN  IF r.is_end THEN r ELSE ScanHorizontal(b, board_size, i + 1)

RECURSIVE ScanVerticalColumn(_, _, _, _)
\* Column j of the vertical scan: for i in 0..board_size-win_len, from i on.
ScanVerticalColumn(b, board_size, j, i) ==
    IF i > board_size - win_len THEN NoEnd
    ELSE IF WindowWin(b, i, j, 1, 0) THEN WinResult(b, i, j, 1, 0)
    ELSE ScanVerticalColumn(b, board_size, j, i + 1)

RECURSIVE ScanVertical(_, _, _)
\* for j in 0..board_size-1, from j on.
ScanVertical(b, board_size, j) ==
    IF j >= board_size THEN NoEnd
    ELSE LET r == ScanVerticalColumn(b, board_size, j, 0)
         IN  IF r.is_end THEN r ELSE ScanVertical(b, board_size, j + 1)

RECURSIVE ScanDiagDownRow(_, _, _, _)
\* Start row i of the down-right scan: for j in 0..board_size-win_len.
ScanDiagDownRow(b, board_size, i, j) ==
    IF j > board_size - win_len THEN NoEnd
    ELSE IF WindowWin(b, i, j, 1, 1) THEN WinResult(b, i, j, 1, 1)
    ELSE ScanDiagDownRow(b, board_size, i, j + 1)

RECURSIVE ScanDiagDown(_, _, _)
\* for i in 0..board_size-win_len, from i on.
ScanDiagDown(b, board_size, i) ==
    IF i > board_size - win_len THEN NoEnd
    ELSE LET r == ScanDiagDownRow(b, board_size, i, 0)
         IN  IF r.is_end THEN r ELSE ScanDiagDown(b, board_size, i + 1)

RECURSIVE ScanDiagUpRowDescending(_, _, _, _)
\* ScanDiagUpRow visiting the start columns from board_size-1 down to
\* win_len-1: loop index j stands for start column board_size-1-(j-(win_len-1)).
ScanDiagUpRowDescending(b, board_size, i, j) ==
    LET c == board_size - 1 - (j - (win_len - 1)) IN
    IF j >= board_size THEN NoEnd
    ELSE IF WindowWin(b, i, c, 1, -1) THEN WinResult(b, i, c, 1, -1)
    ELSE ScanDiagUpRowDescending(b, board_size, i, j + 1)

RECURSIVE ScanDiagUpRow(_, _, _, _)
\* Start row i of the down-left scan: for j in win_len-1..board_size-1.
ScanDiagUpRow(b, board_size, i, j) ==
    IF j >= board_size THEN NoEnd
    ELSE IF WindowWin(b, i, j, 1, -1) THEN WinResult(b, i, j, 1, -1)
    ELSE ScanDiagUpRow(b, board_size, i, j + 1)

RECURSIVE ScanDiagUp(_, _, _)
\* for i in 0..board_size-win_len, from i on.
ScanDiagUp(b, board_size, i) ==
    IF i > board_size - win_len THEN NoEnd
    ELSE LET r == ScanDiagUpRow(b, board_size, i, win_len - 1)
         IN  IF r.is_end THEN r ELSE ScanDiagUp(b, board_size, i + 1)

\* The final draw check: is_full after the double loop with its two breaks.
IsFull(b, board_size) ==
    \A i \in 0 .. (board_size - 1) : \A j \in 0 .. (board_size - 1) : b[i][j] # 0

\* check_game_end with the vertical scan placed before the horizontal one.
check_game_end_VerticalFirst(b, board_size) ==
    LET v == ScanVertical(b, board_size, 0) IN
    IF v.is_end THEN v ELSE
    LET h == ScanHorizontal(b, board_size, 0) IN
    IF h.is_end THEN h ELSE
    LET d == ScanDiagDown(b, board_size, 0) IN
    IF d.is_end THEN d ELSE
    LET u == ScanDiagUp(b, board_size, 0) IN
    IF u.is_end THEN u ELSE
    IF IsFull(b, board_size) THEN [NoEnd EXCEPT !.is_end = TRUE, !.winner = 0]
    ELSE NoEnd

\* check_game_end without the fourth scan (right-up to left-down diagonal).
check_game_end_NoDiagUp(b, board_size) ==
    LET h == ScanHorizontal(b, board_size, 0) IN
    IF h.is_end THEN h ELSE
    LET v == ScanVertical(b, board_size, 0) IN
    IF v.is_end THEN v ELSE
    LET d == ScanDiagDown(b, board_size, 0) IN
    IF d.is_end THEN d ELSE
    IF IsFull(b, board_size) THEN [NoEnd EXCEPT !.is_end = TRUE, !.winner = 0]
    ELSE NoEnd

check_game_end(b, board_size) ==
    LET h == ScanHorizontal(b, board_size, 0) IN
    IF h.is_end THEN h ELSE
    LET v == ScanVertical(b, board_size, 0) IN
    IF v.is_end THEN v ELSE
    LET d == ScanDiagDown(b, board_size, 0) IN
    IF d.is_end THEN d ELSE
    LET u == ScanDiagUp(b, board_size, 0) IN
    IF u.is_end THEN u ELSE
    IF IsFull(b, board_size) THEN [NoEnd EXCEPT !.is_end = TRUE, !.winner = 0]
    ELSE NoEnd

\* ------------------------------------------------ check_line, pattern score
RECURSIVE check_line(_, _, _, _, _, _, _)
\* Counts the cells holding color from (x, y) on, stepping by (dx, dy), up to
\* the first cell that is off the board or holds something else.
check_line(b, x, y, dx, dy, color, board_size) ==
    IF x >= 0 /\ x < board_size /\ y >= 0 /\ y < board_size /\ b[x][y] = color
    THEN 1 + check_line(b, x + dx, y + dy, dx, dy, color, board_size)
    ELSE 0

\* The weight picked for (total, blocked).
PatternWeight(total, blocked, w) ==
    IF total >= 5 THEN w.FIVE
    ELSE IF total = 4 THEN (IF blocked THEN w.BLOCKED_FOUR ELSE w.FOUR)
    ELSE IF total = 3 THEN (IF blocked THEN w.BLOCKED_THREE ELSE w.THREE)
    ELSE IF total = 2 THEN (IF blocked THEN w.BLOCKED_TWO ELSE w.TWO)
    ELSE IF total = 1 THEN w.ONE
    ELSE 0

\* AxisScore with an end that falls off the board counted as blocked.
AxisScoreEdgeBlocks(b, x, y, dx, dy, color, w, board_size) ==
    LET opponent == IF color = 1 THEN 2 ELSE 1
        forward == check_line(b, x + dx, y + dy, dx, dy, color, board_size)
        backward == check_line(b, x - dx, y - dy, -dx, -dy, color, board_size)
        total == forward + backward + 1
        fx == x + (forward + 1) * dx
        fy == y + (forward + 1) * dy
        bx == x - (backward + 1) * dx
        by == y - (backward + 1) * dy
        blocked ==
            \/ ~(fx >= 0 /\ fx < board_size /\ fy >= 0 /\ fy < board_size)
            \/ b[fx][fy] = opponent
            \/ ~(bx >= 0 /\ bx < board_size /\ by >= 0 /\ by < board_size)
            \/ b[bx][by] = opponent
    IN  PatternWeight(total, blocked, w)

\* One pass of the loop over dirs in get_pattern_score: the run through
\* (x, y) along (dx, dy), whether an end is blocked, and the weight added.
AxisScore(b, x, y, dx, dy, color, w, board_size) ==
    LET opponent == IF color = 1 THEN 2 ELSE 1
        forward == check_line(b, x + dx, y + dy, dx, dy, color, board_size)
        backward == check_line(b, x - dx, y - dy, -dx, -dy, color, board_size)
        total == forward + backward + 1
        fx == x + (forward + 1) * dx
        fy == y + (forward + 1) * dy
        bx == x - (backward + 1) * dx
        by == y - (backward + 1) * dy
        blocked ==
            \/ (fx >= 0 /\ fx < board_size /\ fy >= 0 /\ fy < board_size
                 /\ b[fx][fy] = opponent)
            \/ (bx >= 0 /\ bx < board_size /\ by >= 0 /\ by < board_size
                 /\ b[bx][by] = opponent)
    IN  PatternWeight(total, blocked, w)

\* int dirs[4][2] = {{0, 1}, {1, 0}, {1, 1}, {1, -1}}
dirs == <<  <<0, 1>>, <<1, 0>>, <<1, 1>>, <<1, -1>>  >>

\* score starts at 0 and each of the 4 axes adds its weight, in order.
get_pattern_score(b, x, y, color, w, board_size) ==
    0 + AxisScore(b, x, y, dirs[1][1], dirs[1][2], color, w, board_size)
      + AxisScore(b, x, y, dirs[2][1], dirs[2][2], color, w, board_size)
      + AxisScore(b, x, y, dirs[3][1], dirs[3][2], color, w, board_size)
      + AxisScore(b, x, y, dirs[4][1], dirs[4][2], color, w, board_size)

\* temp_board = board; temp_board[x][y] = color; score the pattern there.
evaluate_move(b, x, y, color, w, board_size) ==
    LET temp_board == [b EXCEPT ![x][y] = color]
    IN  get_pattern_score(temp_board, x, y, color, w, board_size)

\* ------------------------------------------------------------------ inputs
EmptyBoard == [i \in Idx |-> [j \in Idx |-> 0]]

\* A completely filled board without any five: colours alternate along a
\* row and change every second step along a column and both diagonals.
FullBoard(first) ==
    [i \in Idx |-> [j \in Idx |->
        IF ((i + 2 * j) % 4) < 2 THEN first ELSE 3 - first]]

Dirs == <<  <<0, 1>>, <<1, 0>>, <<1, 1>>, <<1, -1>>  >>

\* The windows of win_len cells that lie on the board: start (i, j), axis d.
Windows ==
    { w \in [i : Idx, j : Idx, d : 1 .. 4] :
        /\ w.i + (win_len - 1) * Dirs[w.d][1] \in Idx
        /\ w.j + (win_len - 1) * Dirs[w.d][2] \in Idx }

\* A stamp paints one window with colour c; when gap > 0 the gap-th cell of
\* the window gets the value g instead (empty or the other colour).
FullStamps == { [w |-> w, c |-> c, gap |-> 0, g |-> 0] : w \in Windows, c \in 1 .. 2 }

GapStamps ==
    { s \in [w : Windows, c : 1 .. 2, gap : 1 .. win_len, g : 0 .. 2] : s.g # s.c }

\* An erasing stamp empties a window, all of it or all but one cell.
EraseStamps ==
    { [w |-> w, c |-> 0, gap |-> 0, g |-> 0] : w \in Windows }
    \cup [w : Windows, c : {0}, gap : 1 .. win_len, g : 1 .. 2]

\* A full stamp on the window scanned first of all (horizontal from (0,0)) or
\* on one scanned in the last pass (down-left from (0,N-1)).
CornerStamps ==
    { s \in FullStamps :
        \/ (s.w.d = 1 /\ s.w.i = 0 /\ s.w.j = 0)
        \/ (s.w.d = 4 /\ s.w.i = 0 /\ s.w.j = N - 1) }

NoStamp == [w |-> [i |-> 0, j |-> 0, d |-> 0], c |-> 0, gap |-> 0, g |-> 0]

Paint(b, s) ==
    IF s.w.d = 0 THEN b
    ELSE [x \in Idx |-> [y \in Idx |->
            LET ks == { k \in 1 .. win_len :
                          /\ x = s.w.i + (k - 1) * Dirs[s.w.d][1]
                          /\ y = s.w.j + (k - 1) * Dirs[s.w.d][2] }
            IN  IF ks = {} THEN b[x][y]
                ELSE IF s.gap \in ks THEN s.g ELSE s.c]]

ZeroWeights ==
    [FIVE |-> 0, FOUR |-> 0, BLOCKED_FOUR |-> 0, THREE |-> 0,
     BLOCKED_THREE |-> 0, TWO |-> 0, BLOCKED_TWO |-> 0, ONE |-> 0]

\* -------------------------------------------------------- find_winning_move
\* WinsAt accepting any ended game (is_end alone, without winner == color).
WinsAtAnyEnd(b, color, board_size, i, j) ==
    LET temp_board == [b EXCEPT ![i][j] = color]
        result == check_game_end(temp_board, board_size)
    IN  result.is_end

\* Whether placing color on a copy at the empty cell (i, j) ends the game
\* with winner == color.
WinsAt(b, color, board_size, i, j) ==
    LET temp_board == [b EXCEPT ![i][j] = color]
        result == check_game_end(temp_board, board_size)
    IN  result.is_end /\ result.winner = color

RECURSIVE FindInRow(_, _, _, _, _)
\* The inner loop over j in row i, from j on: skip occupied cells, return
\* the first cell that wins, (-1,-1) when the row has none.
FindInRow(b, color, board_size, i, j) ==
    IF j >= board_size THEN <<-1, -1>>
    ELSE IF b[i][j] # 0 THEN FindInRow(b, color, board_size, i, j + 1)
    ELSE IF WinsAt(b, color, board_size, i, j) THEN <<i, j>>
    ELSE FindInRow(b, color, board_size, i, j + 1)

RECURSIVE FindFrom(_, _, _, _)
\* The outer loop over the rows from i on.
FindFrom(b, color, board_size, i) ==
    IF i >= board_size THEN <<-1, -1>>
    ELSE LET m == FindInRow(b, color, board_size, i, 0)
         IN  IF m # <<-1, -1>> THEN m ELSE FindFrom(b, color, board_size, i + 1)

\* find_winning_move with the loops exchanged: columns outside, rows inside.
find_winning_move_ColumnMajor(b, color, board_size) ==
    LET t == [i \in 0 .. (board_size - 1) |-> [j \in 0 .. (board_size - 1) |-> b[j][i]]]
        m == FindFrom(t, color, board_size, 0)
    IN  <<m[2], m[1]>>

find_winning_move(b, color, board_size) == FindFrom(b, color, board_size, 0)

\* ------------------------------------------------------------ mcts_optimize
\* int dx[] = {-1, 0, 1, -1, 1, -1, 0, 1}; int dy[] = {-1, -1, -1, 0, 0, 1, 1, 1}
dx == <<-1, 0, 1, -1, 1, -1, 0, 1>>
dy == <<-1, -1, -1, 0, 0, 1, 1, 1>>

\* float best_score = -1e9
InitialBest == 0 - 1000000000

\* candidates: init_move, then each neighbour that is on the board and empty.
Candidates(b, init_move, board_size) ==
    LET near == [d \in 1 .. 8 |-> <<init_move[1] + dx[d], init_move[2] + dy[d]>>]
        keep(m) == /\ m[1] >= 0 /\ m[1] < board_size
                   /\ m[2] >= 0 /\ m[2] < board_size
                   /\ b[m[1]][m[2]] = 0
    IN  <<init_move>> \o SelectSeq(near, keep)

RECURSIVE SumScores(_, _, _, _, _)
\* The inner loop: iterations times, place color at move on a copy and add
\* evaluate_move under Weights{} (all fields zero).
SumScores(b, move, color, iter, board_size) ==
    IF iter <= 0 THEN 0
    ELSE LET temp_board == [b EXCEPT ![move[1]][move[2]] = color]
         IN  evaluate_move(temp_board, move[1], move[2], color, ZeroWeights, board_size)
             + SumScores(b, move, color, iter - 1, board_size)

\* score /= iterations: the sum of iterations equal scores, divided.
MeanScore(b, move, color, iterations, board_size) ==
    SumScores(b, move, color, iterations, board_size) \div iterations

RECURSIVE TrackBestOrEqual(_, _, _, _, _, _, _, _)
\* TrackBest replacing the best on score >= best_score.
TrackBestOrEqual(b, cands, k, color, iterations, board_size, best_score, best_move) ==
    IF k > Len(cands) THEN best_move
    ELSE LET score == MeanScore(b, cands[k], color, iterations, board_size)
         IN  IF score >= best_score
             THEN TrackBestOrEqual(b, cands, k + 1, color, iterations, board_size, score, cands[k])
             ELSE TrackBestOrEqual(b, cands, k + 1, color, iterations, board_size,
                                   best_score, best_move)

RECURSIVE TrackBest(_, _, _, _, _, _, _, _)
\* The loop over the candidates from the k-th on: the best is replaced only
\* when score > best_score.
TrackBest(b, cands, k, color, iterations, board_size, best_score, best_move) ==
    IF k > Len(cands) THEN best_move
    ELSE LET score == MeanScore(b, cands[k], color, iterations, board_size)
         IN  IF score > best_score
             THEN TrackBest(b, cands, k + 1, color, iterations, board_size, score, cands[k])
             ELSE TrackBest(b, cands, k + 1, color, iterations, board_size,
                            best_score, best_move)

mcts_optimize(b, init_move, color, depth, iterations, board_size) ==
    TrackBest(b, Candidates(b, init_move, board_size), 1, color, iterations, board_size,
              InitialBest, init_move)

\* Weights that make a score name its four summands: powers of 5.
PowerWeights ==
    [FIVE |-> 78125, FOUR |-> 15625, BLOCKED_FOUR |-> 3125, THREE |-> 625,
     BLOCKED_THREE |-> 125, TWO |-> 25, BLOCKED_TWO |-> 5, ONE |-> 1]

\* Signed weights in no particular order.
SignedWeights ==
    [FIVE |-> -7, FOUR |-> 3, BLOCKED_FOUR |-> 11, THREE |-> -2,
     BLOCKED_THREE |-> 0, TWO |-> 5, BLOCKED_TWO |-> -13, ONE |-> 2]

NoCall == [op |-> "none"]

\* ----------------------------------------------------- win/draw detection
\* Boards for the detector: an empty board with up to two full stamps, an
\* empty board with at most one corner stamp and one stamp with a gap, or a
\* full board without a five with one stamp that may have a gap or may erase.
InitEnd ==
    /\ \/ \E s1 \in FullStamps \cup {NoStamp} :
          \E s2 \in FullStamps \cup {NoStamp} :
             board = Paint(Paint(EmptyBoard, s1), s2)
       \/ \E s1 \in CornerStamps \cup {NoStamp} :
          \E s2 \in GapStamps :
             board = Paint(Paint(EmptyBoard, s1), s2)
       \/ \E s \in FullStamps \cup GapStamps \cup EraseStamps \cup {NoStamp} :
             board = Paint(FullBoard(1), s)
    /\ weights = ZeroWeights
    /\ call = NoCall
    /\ ret = NoEnd

\* The caller takes the returned value and is free to call again.
Return ==
    /\ call # NoCall
    /\ call' = NoCall
    /\ ret' = NoEnd
    /\ UNCHANGED <<board, weights>>

CheckGameEnd ==
    /\ call = NoCall
    /\ call' = [op |-> "check_game_end"]
    /\ ret' = check_game_end(board, N)
    /\ UNCHANGED <<board, weights>>

NextEnd == CheckGameEnd \/ Return

SpecEnd == InitEnd /\ [][NextEnd]_vars

\* ----------------------------------------------- properties of the detector
IsWin(r) == r.is_end /\ r.winner # 0
IsDraw(r) == r.is_end /\ r.winner = 0
IsOngoing(r) == ~r.is_end

\* The window of win_len cells starting at (i, j) along axis d lies on the
\* board and holds win_len equal nonzero values.
Five(b, i, j, d) ==
    /\ i + (win_len - 1) * Dirs[d][1] \in Idx
    /\ j + (win_len - 1) * Dirs[d][2] \in Idx
    /\ b[i][j] # 0
    /\ \A k \in 1 .. (win_len - 1) :
          b[i + k * Dirs[d][1]][j + k * Dirs[d][2]] = b[i][j]

HasFive(b, d) == \E i \in Idx : \E j \in Idx : Five(b, i, j, d)

AnyFive(b) == \E d \in 1 .. 4 : HasFive(b, d)

\* The axes along which a line of positions advances one step at a time.
LineAxes(line) ==
    { d \in 1 .. 4 : \A k \in 1 .. (Len(line) - 1) :
        line[k + 1] = <<line[k][1] + Dirs[d][1], line[k][2] + Dirs[d][2]>> }

SameRow(line) == \A k \in 1 .. Len(line) : line[k][1] = line[1][1]

\* C1: when fives exist, check_game_end reports a Win whose line lies on the
\* first axis, in the order horizontal, vertical, down-right, down-left, that
\* holds a five; with a horizontal and a vertical five on the board the line
\* is a horizontal one (its 5 positions share a row).
C1_AxisPriority ==
    call.op = "check_game_end" =>
        \A d \in 1 .. 4 :
            (HasFive(board, d) /\ \A e \in 1 .. (d - 1) : ~HasFive(board, e)) =>
                /\ IsWin(ret)
                /\ Len(ret.win_line) = 5
                /\ LineAxes(ret.win_line) = {d}
                /\ (d = 1 => SameRow(ret.win_line))

\* C1 witness: a horizontal five and a vertical five of the other colour are on
\* the board and the reported line is horizontal.
C1_Witness ==
    /\ call.op = "check_game_end"
    /\ HasFive(board, 1)
    /\ \E i \in Idx : \E j \in Idx : Five(board, i, j, 2) /\ board[i][j] # ret.winner
    /\ IsWin(ret)
    /\ SameRow(ret.win_line)

\* C2: check_game_end returns Draw iff no cell is empty and no five exists,
\* Ongoing iff no five exists and some cell is empty, and a Win iff a five
\* exists on one of the 4 axes.
C2_Outcome ==
    call.op = "check_game_end" =>
        LET empty == \E i \in Idx : \E j \in Idx : board[i][j] = 0 IN
        /\ IsDraw(ret) <=> (~empty /\ ~AnyFive(board))
        /\ IsOngoing(ret) <=> (~AnyFive(board) /\ empty)
        /\ IsWin(ret) <=> AnyFive(board)

\* C2 witness: a full board without a five was evaluated as a Draw.
C2_Witness ==
    /\ call.op = "check_game_end"
    /\ IsDraw(ret)
    /\ \A i \in Idx : \A j \in Idx : board[i][j] # 0

\* C3: a Win names a winner 1 or 2, win_line_size 5 and an ordered line of
\* exactly 5 positions on the board, consecutive steps along one of the 4
\* axis directions, each holding the winner.
C3_WinLine ==
    (call.op = "check_game_end" /\ IsWin(ret)) =>
        /\ ret.winner \in {1, 2}
        /\ ret.win_line_size = 5
        /\ Len(ret.win_line) = 5
        /\ \A k \in 1 .. 5 :
              /\ ret.win_line[k][1] \in Idx
              /\ ret.win_line[k][2] \in Idx
              /\ board[ret.win_line[k][1]][ret.win_line[k][2]] = ret.winner
        /\ LineAxes(ret.win_line) # {}

\* C3 witness: a Win was reported for a run longer than 5: the cell one step
\* past the last reported position is on the board and holds the winner too.
C3_Witness ==
    /\ call.op = "check_game_end"
    /\ IsWin(ret)
    /\ \E d \in LineAxes(ret.win_line) :
          LET x == ret.win_line[5][1] + Dirs[d][1]
              y == ret.win_line[5][2] + Dirs[d][2]
          IN  x \in Idx /\ y \in Idx /\ board[x][y] = ret.winner

\* The start positions of the winning down-left windows.
DiagUpWins(b) == { p \in Idx \X Idx : Five(b, p[1], p[2], 4) }

NoEarlierAxis(b) == ~HasFive(b, 1) /\ ~HasFive(b, 2) /\ ~HasFive(b, 3)

\* C9 as stated: with no win on the first three axes, the reported down-left
\* window is the first one by start row ascending, then start column
\* DEscending.
C9_Original ==
    (call.op = "check_game_end" /\ NoEarlierAxis(board) /\ DiagUpWins(board) # {}) =>
        /\ IsWin(ret)
        /\ ret.win_line[1] \in DiagUpWins(board)
        /\ \A p \in DiagUpWins(board) :
              \/ ret.win_line[1][1] < p[1]
              \/ (ret.win_line[1][1] = p[1] /\ ret.win_line[1][2] >= p[2])

\* C9 amended: with no win on the first three axes, the reported down-left
\* window is the first one by start row ascending, then start column
\* ascending (from 4 up to N-1), with the winner that window holds.
C9_DiagUpOrder ==
    (call.op = "check_game_end" /\ NoEarlierAxis(board) /\ DiagUpWins(board) # {}) =>
        /\ IsWin(ret)
        /\ ret.win_line[1] \in DiagUpWins(board)
        /\ \A p \in DiagUpWins(board) :
              \/ ret.win_line[1][1] < p[1]
              \/ (ret.win_line[1][1] = p[1] /\ ret.win_line[1][2] <= p[2])
        /\ ret.winner = board[ret.win_line[1][1]][ret.win_line[1][2]]
        /\ ret.win_line =
              [k \in 1 .. 5 |-> <<ret.win_line[1][1] + (k - 1), ret.win_line[1][2] - (k - 1)>>]

\* C9 witness: two winning down-left windows of different colours start in
\* the same row, no earlier axis wins, and the one reported has the smaller
\* start column.
C9_Witness ==
    /\ call.op = "check_game_end"
    /\ NoEarlierAxis(board)
    /\ \E p \in DiagUpWins(board) :
          /\ p[1] = ret.win_line[1][1]
          /\ p[2] > ret.win_line[1][2]
          /\ board[p[1]][p[2]] # ret.winner

\* ------------------------------------------------------------ move validation
\* How far outside the board the coordinates of a validated move may lie.
MaxOff == 1

\* Player codes 0 .. MaxPlayer are tried (1 and 2 are the valid ones).
MaxPlayer == 3

InitValidate ==
    /\ \E s \in FullStamps \cup {NoStamp} : board = Paint(EmptyBoard, s)
    /\ weights = ZeroWeights
    /\ call = NoCall
    /\ ret = NoEnd

ValidateMove ==
    \E x \in (0 - MaxOff) .. (N - 1 + MaxOff) :
    \E y \in (0 - MaxOff) .. (N - 1 + MaxOff) :
    \E p \in 0 .. MaxPlayer :
        /\ call = NoCall
        /\ call' = [op |-> "validate_move", x |-> x, y |-> y, player |-> p]
        /\ ret' = validate_move(board, x, y, p, N)
        /\ UNCHANGED <<board, weights>>

NextValidate == ValidateMove \/ Return

SpecValidate == InitValidate /\ [][NextValidate]_vars

OnBoard(x, y) == x \in Idx /\ y \in Idx

\* C8: validate_move succeeds iff the position is on the board, the cell is
\* empty and the player is 1 or 2; a failure carries exactly one reason,
\* bounds before occupancy before player; the board is never read at an
\* index off the board.
C8_Validate ==
    call.op = "validate_move" =>
        LET inb == OnBoard(call.x, call.y)
            free == inb /\ board[call.x][call.y] = 0
            okp == call.player \in {1, 2}
        IN  /\ ret.valid <=> (inb /\ free /\ okp)
            /\ ~inb => ret.reason = "invalid_position"
            /\ (inb /\ ~free) => ret.reason = "occupied"
            /\ (inb /\ free /\ ~okp) => ret.reason = "invalid_player"
            /\ ~ret.valid => ret.reason \in {"invalid_position", "occupied", "invalid_player"}
            /\ ret.reads \subseteq (Idx \X Idx)

\* C8 witness: a position off the board with an invalid player was rejected
\* for the bounds, without a read of the board.
C8_Witness ==
    /\ call.op = "validate_move"
    /\ ~OnBoard(call.x, call.y)
    /\ call.player \notin {1, 2}
    /\ ret.reason = "invalid_position"
    /\ ret.reads = {}

\* ------------------------------------------------------------ pattern scoring
InitScore ==
    /\ \/ \E s \in FullStamps \cup GapStamps \cup {NoStamp} :
             board = Paint(EmptyBoard, s)
       \/ \E s \in FullStamps \cup {NoStamp} : board = Paint(FullBoard(1), s)
    /\ weights \in {PowerWeights, SignedWeights}
    /\ call = NoCall
    /\ ret = NoEnd

EvaluateMove ==
    \E x \in Idx : \E y \in Idx : \E color \in 1 .. 2 :
        /\ call = NoCall
        /\ call' = [op |-> "evaluate_move", x |-> x, y |-> y, color |-> color]
        /\ ret' = evaluate_move(board, x, y, color, weights, N)
        /\ UNCHANGED <<board, weights>>

NextScore == EvaluateMove \/ Return

SpecScore == InitScore /\ [][NextScore]_vars

\* Whether the cell m steps from (x, y) along (sx, sy) is on the board and
\* holds v.
Holds(b, x, y, sx, sy, m, v) ==
    /\ OnBoard(x + m * sx, y + m * sy)
    /\ b[x + m * sx][y + m * sy] = v

\* The number of consecutive cells holding color strictly beyond (x, y)
\* along (sx, sy).
Beyond(b, x, y, sx, sy, color) ==
    CHOOSE n \in 0 .. N :
        /\ \A m \in 1 .. n : Holds(b, x, y, sx, sy, m, color)
        /\ ~Holds(b, x, y, sx, sy, n + 1, color)

RunTotal(b, x, y, d, color) ==
    1 + Beyond(b, x, y, Dirs[d][1], Dirs[d][2], color)
      + Beyond(b, x, y, -Dirs[d][1], -Dirs[d][2], color)

\* An end of the run is blocked: the cell one step past it is on the board
\* and holds the opposing colour.
RunBlocked(b, x, y, d, color) ==
    LET f == Beyond(b, x, y, Dirs[d][1], Dirs[d][2], color)
        k == Beyond(b, x, y, -Dirs[d][1], -Dirs[d][2], color)
    IN  \/ Holds(b, x, y, Dirs[d][1], Dirs[d][2], f + 1, 3 - color)
        \/ Holds(b, x, y, -Dirs[d][1], -Dirs[d][2], k + 1, 3 - color)

ExpectedWeight(b, x, y, d, color, w) ==
    LET total == RunTotal(b, x, y, d, color)
        blocked == RunBlocked(b, x, y, d, color)
    IN  CASE total >= 5 -> w.FIVE
          [] total = 4 /\ blocked -> w.BLOCKED_FOUR
          [] total = 4 /\ ~blocked -> w.FOUR
          [] total = 3 /\ blocked -> w.BLOCKED_THREE
          [] total = 3 /\ ~blocked -> w.THREE
          [] total = 2 /\ blocked -> w.BLOCKED_TWO
          [] total = 2 /\ ~blocked -> w.TWO
          [] total = 1 -> w.ONE

\* The board evaluate_move scores: the caller's board with color at (x, y).
Placed == [board EXCEPT ![call.x][call.y] = call.color]

\* C7: the score of a position holding color is the sum over the 4 axes of
\* the weight selected by (total, blocked), an end off the board never
\* blocking; a lone stone away from the edges scores exactly 4 * ONE.
C7_PatternScore ==
    call.op = "evaluate_move" =>
        /\ ret = ExpectedWeight(Placed, call.x, call.y, 1, call.color, weights)
                + ExpectedWeight(Placed, call.x, call.y, 2, call.color, weights)
                + ExpectedWeight(Placed, call.x, call.y, 3, call.color, weights)
                + ExpectedWeight(Placed, call.x, call.y, 4, call.color, weights)
        /\ ( /\ call.x \in 1 .. (N - 2)
             /\ call.y \in 1 .. (N - 2)
             /\ \A u \in -1 .. 1 : \A v \in -1 .. 1 :
                   (u # 0 \/ v # 0) => Placed[call.x + u][call.y + v] # call.color )
           => ret = 4 * weights.ONE

\* C7 witness: a run of 4 through the position ends at the board edge, the
\* other end is on the board and free of the opponent, and the score holds
\* the unblocked weight FOUR for it.
C7_Witness ==
    /\ call.op = "evaluate_move"
    /\ weights = PowerWeights
    /\ \E d \in 1 .. 4 :
          LET f == Beyond(Placed, call.x, call.y, Dirs[d][1], Dirs[d][2], call.color)
              k == Beyond(Placed, call.x, call.y, -Dirs[d][1], -Dirs[d][2], call.color)
          IN  /\ f + k + 1 = 4
              /\ ~OnBoard(call.x + (f + 1) * Dirs[d][1], call.y + (f + 1) * Dirs[d][2])
              /\ Holds(Placed, call.x, call.y, -Dirs[d][1], -Dirs[d][2], k + 1, 0)
    /\ (ret \div PowerWeights.FOUR) % 5 >= 1

\* ------------------------------------------------------- winning-move search
\* Boards for the search: an empty board with at most one corner stamp and
\* one stamp with an empty gap, or a full board with one stamp with a gap or
\* one erasing stamp.
InitFind ==
    /\ \/ \E s1 \in CornerStamps \cup {NoStamp} :
          \E s2 \in {t \in GapStamps : t.g = 0} \cup {NoStamp} :
             board = Paint(Paint(EmptyBoard, s1), s2)
       \/ \E s \in GapStamps \cup EraseStamps : board = Paint(FullBoard(1), s)
    /\ weights = ZeroWeights
    /\ call = NoCall
    /\ ret = NoEnd

FindWinningMove ==
    \E color \in 1 .. 2 :
        /\ call = NoCall
        /\ call' = [op |-> "find_winning_move", color |-> color]
        /\ ret' = find_winning_move(board, color, N)
        /\ UNCHANGED <<board, weights>>

NextFind == FindWinningMove \/ Return

SpecFind == InitFind /\ [][NextFind]_vars

None == <<-1, -1>>

\* p comes before q in row-major order, or is q.
RowMajorLeq(p, q) == p[1] < q[1] \/ (p[1] = q[1] /\ p[2] <= q[2])

\* The first position of a set in row-major order, None for the empty set.
RowMajorFirst(S) ==
    IF S = {} THEN None ELSE CHOOSE p \in S : \A q \in S : RowMajorLeq(p, q)

EmptyCells(b) == { p \in Idx \X Idx : b[p[1]][p[2]] = 0 }

\* The empty cells where placing color makes check_game_end return a Win
\* with winner color.
WinningCells(b, color) ==
    { p \in EmptyCells(b) :
        LET r == check_game_end([b EXCEPT ![p[1]][p[2]] = color], N)
        IN  IsWin(r) /\ r.winner = color }

\* The board holds a five of color.
FiveOf(b, color) ==
    \E d \in 1 .. 4 : \E i \in Idx : \E j \in Idx : Five(b, i, j, d) /\ b[i][j] = color

\* C4: find_winning_move returns the row-major-first empty cell where placing
\* color makes check_game_end report a Win for color, and (-1,-1) when there is
\* none; a returned cell is empty and placing color there gives a board with
\* a five of color (so (-1,-1) is returned when no placement produces one).
C4_FindWinningMove ==
    call.op = "find_winning_move" =>
        /\ ret = RowMajorFirst(WinningCells(board, call.color))
        /\ ret # None =>
              /\ ret \in EmptyCells(board)
              /\ FiveOf([board EXCEPT ![ret[1]][ret[2]] = call.color], call.color)

\* The board that is empty except for four stones of color 1 in row r,
\* columns c .. c+3.
FourInRow(r, c) ==
    [i \in Idx |-> [j \in Idx |-> IF i = r /\ j \in c .. (c + 3) THEN 1 ELSE 0]]

\* C4 witness: four color-1 stones in a row with both ends open and on the
\* board; the search for color 1 returned the end with the smaller column.
C4_Witness ==
    /\ call.op = "find_winning_move"
    /\ call.color = 1
    /\ \E r \in Idx : \E c \in 1 .. (N - 5) :
          board = FourInRow(r, c) /\ ret = <<r, c - 1>>

\* The empty cells through which, after placing color, the scorer counts a
\* run (forward + backward + 1 via check_line) of 5 or more on some axis.
ScorerFiveCells(b, color) ==
    { p \in EmptyCells(b) :
        LET t == [b EXCEPT ![p[1]][p[2]] = color]
        IN  \E d \in 1 .. 4 :
              check_line(t, p[1] + dirs[d][1], p[2] + dirs[d][2],
                         dirs[d][1], dirs[d][2], color, N)
              + check_line(t, p[1] - dirs[d][1], p[2] - dirs[d][2],
                           -dirs[d][1], -dirs[d][2], color, N)
              + 1 >= 5 }

\* C10: on a board that check_game_end calls Ongoing, find_winning_move
\* returns the row-major-first empty cell whose run count in the scorer is
\* at least 5 on some axis, and (-1,-1) iff there is no such cell.
C10_FinderAgreesWithScorer ==
    (call.op = "find_winning_move" /\ IsOngoing(check_game_end(board, N))) =>
        /\ ret = RowMajorFirst(ScorerFiveCells(board, call.color))
        /\ (ret # None) <=> (ScorerFiveCells(board, call.color) # {})

\* C10 witness: on an Ongoing board two cells complete a five for the colour
\* and the search returned the first of them.
C10_Witness ==
    /\ call.op = "find_winning_move"
    /\ IsOngoing(check_game_end(board, N))
    /\ Cardinality(ScorerFiveCells(board, call.color)) >= 2
    /\ ret # None
    /\ ret \in ScorerFiveCells(board, call.color)

\* -------------------------------------------------------- local optimisation
\* The largest number of iterations an optimisation is called with.
MaxIter == 2

\* Boards for the optimiser: an empty board with at most one full stamp of
\* colour 1, or a full board with one window emptied.
InitOpt ==
    /\ \/ \E s \in {t \in FullStamps : t.c = 1} \cup {NoStamp} :
             board = Paint(EmptyBoard, s)
       \/ \E s \in {t \in EraseStamps : t.gap = 0} : board = Paint(FullBoard(1), s)
    /\ weights \in {ZeroWeights, PowerWeights}
    /\ call = NoCall
    /\ ret = NoEnd

\* The caller passes its search budget as depth and as iterations.
MctsOptimize ==
    \E x \in Idx : \E y \in Idx : \E color \in 1 .. 2 : \E it \in 1 .. MaxIter :
        /\ call = NoCall
        /\ call' = [op |-> "mcts_optimize", seed |-> <<x, y>>, color |-> color,
                     iterations |-> it]
        /\ ret' = mcts_optimize(board, <<x, y>>, color, it, it, N)
        /\ UNCHANGED <<board, weights>>

NextOpt == MctsOptimize \/ Return

SpecOpt == InitOpt /\ [][NextOpt]_vars

\* The candidates as the specification lists them: the seed, then its
\* neighbours on the board that are empty, in the offset order.
Offsets ==
    <<  <<-1, -1>>, <<0, -1>>, <<1, -1>>, <<-1, 0>>, <<1, 0>>, <<-1, 1>>, <<0, 1>>, <<1, 1>>  >>

SpecCandidates(b, seed) ==
    LET near == [d \in 1 .. 8 |-> <<seed[1] + Offsets[d][1], seed[2] + Offsets[d][2]>>]
        keep(m) == OnBoard(m[1], m[2]) /\ b[m[1]][m[2]] = 0
    IN  <<seed>> \o SelectSeq(near, keep)

\* The earliest candidate whose evaluate_move score under w is the highest.
HighestScored(b, seed, color, w) ==
    LET cands == SpecCandidates(b, seed)
        sc(k) == evaluate_move(b, cands[k][1], cands[k][2], color, w, N)
        best == CHOOSE k \in 1 .. Len(cands) :
                    /\ \A m \in 1 .. Len(cands) : sc(m) <= sc(k)
                    /\ \A m \in 1 .. (k - 1) : sc(m) < sc(k)
    IN  cands[best]

\* C5 as stated: for iterations >= 1 the optimiser returns the earliest
\* candidate with the highest evaluate_move score under the caller's weights.
C5_HighestUnderCallerWeights ==
    (call.op = "mcts_optimize" /\ call.iterations >= 1) =>
        ret = HighestScored(board, call.seed, call.color, weights)

\* C6: with all-zero weights the optimiser returns the seed, whatever the
\* board, the seed on the board, the colour and the iterations >= 1; no
\* other number of iterations returns another position.
C6_ZeroWeightsReturnSeed ==
    (call.op = "mcts_optimize" /\ weights = ZeroWeights) =>
        /\ ret = call.seed
        /\ \A it \in 1 .. MaxIter :
              mcts_optimize(board, call.seed, call.color, it, it, N) = ret

\* C6 witness: with all-zero weights and more than one iteration, a seed with
\* an empty neighbour on the board was returned unchanged.
C6_Witness ==
    /\ call.op = "mcts_optimize"
    /\ weights = ZeroWeights
    /\ call.iterations >= 2
    /\ Len(SpecCandidates(board, call.seed)) >= 2
    /\ ret = call.seed

====
